---- MODULE Spec2Model ----
(***************************************************************************)
(* Model of the walrus-seal-ui client protocol logic:                      *)
(*   - WalrusService.store and the useWalrus hook around it                *)
(*     (purchase -> upload -> register -> certify),                        *)
(*   - SealService session keys and decrypt, the useSeal hook and the two  *)
(*     DecryptionPanel variants.                                           *)
(* Chain calls, publisher uploads, wallet signing requests and calls into  *)
(* the Seal SDK are asynchronous: the code between two awaits is one       *)
(* action, the awaited result is an input chosen by the environment.       *)
(***************************************************************************)
EXTENDS Integers, Sequences, FiniteSets, TLC

\* ---------------------------------------------------------------- bounds
MaxStores == 2
MaxSigs == 2
MaxTime == 3
MaxKeys == 2
MaxDecryptKeys == 1
MaxVerifyIds == 2
MaxRuns == 2
MaxFiles == 2

\* ------------------------------------------------------- input universes
Payloads == {"a", "b"}

FileLists == {<<>>, <<"a">>, <<"b">>, <<"a", "b">>}

Calls == 1..MaxStores

VARIABLES
  currentAccount, \* useWalrus: a wallet account is connected (service exists)
  pc,             \* per store call: phase of the pipeline
  files,          \* per store call: the File[] argument
  storage,        \* per store call: result of purchaseStorage
  cert,           \* per store call: AvailabilityCertificate of uploadBlob
  blobObjectId,   \* per store call: object id returned by registerBlob
  hist,           \* per store call: requests submitted so far, in order
  res,            \* per store call: the last awaited result
  ret,            \* per store call: what useWalrus.store returned
  blobs,          \* state.walrus.blobs
  loading,        \* useWalrus loading flag
  error,          \* useWalrus error message
  now,            \* Date.now()
  skeys,          \* session key objects created so far
  sessionKeys,    \* state.seal.sessionKeys: id -> index in skeys (0: absent)
  cr,             \* createSessionKeyInternal in flight
  dec,            \* decrypt in flight / last decrypt
  fk,             \* last fetchKeys call and its result
  enc,            \* SealService.encrypt in flight / last encrypt
  vk,             \* SealService.verifyKeyServers in flight / last call
  tx,             \* last buildSealApproveTransaction call and its result
  adm,            \* WalrusService status / extend / delete / systemInfo call
  app,            \* AppContext state: network.current and wallet.connected
  hook,           \* useSeal state: sealService, isInitialized,
                  \* initializationPromise, loading, error
  runs,           \* runs of the useSeal initialisation effect
  ops,            \* useSeal operations in flight
  up              \* EncryptedFileUploader: files, step, processing, handler

walrusVars == <<currentAccount, pc, files, storage, cert, blobObjectId, hist,
                res, ret, blobs, loading, error>>

sealVars == <<now, skeys, sessionKeys, cr, dec, fk>>

cryptVars == <<enc, vk, tx, adm>>

uiVars == <<app, hook, runs, ops>>

allButUploader ==
  <<currentAccount, pc, files, storage, cert, blobObjectId, hist,
    res, ret, blobs, loading, error, now, skeys, sessionKeys, cr, dec, fk,
    enc, vk, tx, adm, app, hook, runs, ops>>

vars == <<currentAccount, pc, files, storage, cert, blobObjectId, hist,
          res, ret, blobs, loading, error, now, skeys, sessionKeys, cr, dec, fk,
          enc, vk, tx, adm, app, hook, runs, ops, up>>

\* ============================================================== Walrus
NoStorage == [objectId |-> "none", cost |-> 0]

NoCert == [blobId |-> "none", sigs |-> 0]

NoRet == [kind |-> "none", blobId |-> "none", suiObjectId |-> "none"]

NullRet == [kind |-> "null", blobId |-> "none", suiObjectId |-> "none"]

\* file.size / blobData.length of a payload
SizeOf(d) == IF d = "a" THEN 1 ELSE 2

\* a publisher whose blob ids do not depend on the content
BlobIdOfIgnoringContent(d) == "blob_a"

\* result.blobId of the publisher response: blobs are content-addressed
BlobIdOf(d) == IF d = "a" THEN "blob_a" ELSE "blob_b"

\* files.reduce((total, file) => total + file.size, 0)
RECURSIVE TotalSize(_)
TotalSize(fl) == IF fl = <<>> THEN 0 ELSE SizeOf(Head(fl)) + TotalSize(Tail(fl))

\* error.message of what store throws when the given request fails: the
\* signer's rejection is rethrown as it is, the checks of purchaseStorage,
\* uploadBlob and registerBlob throw their own messages
StoreError(req, outcome) ==
  CASE outcome = "rejected" -> "chain call rejected"
    [] req = "purchase" -> "Storage purchase failed - no storage event found"
    [] req = "upload" /\ outcome = "notOk" -> "Blob upload failed"
    [] req = "upload" -> "network error"
    [] OTHER -> "Blob registration failed - no object created"

\* catch (error) { handleError(error, 'store'); return null } finally { setLoading(false) }
Abort(c, msg) ==
  /\ pc' = [pc EXCEPT ![c] = "Aborted"]
  /\ ret' = [ret EXCEPT ![c] = NullRet]
  /\ error' = msg
  /\ loading' = FALSE
  /\ UNCHANGED blobs

\* the wallet account appears / disappears; the effect rebuilds walrusService
SetAccount ==
  /\ currentAccount' = ~currentAccount
  /\ UNCHANGED <<pc, files, storage, cert, blobObjectId, hist, res, ret,
                 blobs, loading, error>>

\* purchaseStorage without the check for the StoragePurchased event
PurchaseSucceededNoEventCheck(outcome) == outcome # "rejected"

\* purchaseStorage: storageEvent found in result.events
PurchaseSucceeded(outcome) == outcome = "ok"

\* uploadBlob: response.ok
UploadSucceeded(outcome) == outcome = "ok"

\* registerBlob without the check for a created object
RegisterSucceededNoObjectCheck(outcome) == outcome # "rejected"

\* registerBlob: result.effects.created[0] exists
RegisterSucceeded(outcome) == outcome = "ok"

\* store with the register step left out
FollowingRequestSkipRegister(req) ==
  CASE req = "purchase" -> "upload"
    [] req = "upload" -> "certify"
    [] req = "register" -> "certify"
    [] OTHER -> "none"

\* the request store submits after the given one has succeeded
FollowingRequest(req) ==
  CASE req = "purchase" -> "upload"
    [] req = "upload" -> "register"
    [] req = "register" -> "certify"
    [] OTHER -> "none"

\* useWalrus.store up to the first await of WalrusService.store that leaves
\* the process: the storage::purchase transaction is handed to the signer
StoreCall(c, fl) ==
  /\ pc[c] = "idle"
  /\ IF c = 1 THEN TRUE ELSE pc[c - 1] # "idle"
  /\ files' = [files EXCEPT ![c] = fl]
  /\ UNCHANGED <<currentAccount, storage, cert, blobObjectId, res>>
  /\ IF ~currentAccount
     THEN /\ pc' = [pc EXCEPT ![c] = "Refused"]
          /\ ret' = [ret EXCEPT ![c] = NullRet]
          /\ error' = "not initialized"
          /\ UNCHANGED <<hist, blobs, loading>>
     ELSE IF Len(fl) = 0
     THEN /\ Abort(c, "No files provided")
          /\ UNCHANGED hist
     ELSE /\ pc' = [pc EXCEPT ![c] = "Reserving"]
          /\ hist' = [hist EXCEPT ![c] = <<"purchase">>]
          /\ loading' = TRUE
          /\ error' = "none"
          /\ UNCHANGED <<ret, blobs>>

\* purchaseStorage after the signer returned, then uploadBlob's fetch
PurchaseDone(c, outcome) ==
  /\ pc[c] = "Reserving"
  /\ res' = [res EXCEPT ![c] = outcome]
  /\ UNCHANGED <<currentAccount, files, cert, blobObjectId>>
  /\ IF PurchaseSucceeded(outcome)
     THEN /\ storage' = [storage EXCEPT ![c] =
                 [objectId |-> "storage", cost |-> SizeOf(files[c][1])]]
          /\ pc' = [pc EXCEPT ![c] = "Uploading"]
          /\ hist' = [hist EXCEPT ![c] = Append(@, FollowingRequest("purchase"))]
          /\ UNCHANGED <<ret, blobs, loading, error>>
     ELSE /\ Abort(c, StoreError("purchase", outcome))
          /\ UNCHANGED <<storage, hist>>

\* uploadBlob after the publisher answered, then registerBlob's transaction
UploadDone(c, outcome, n) ==
  /\ pc[c] = "Uploading"
  /\ res' = [res EXCEPT ![c] = outcome]
  /\ UNCHANGED <<currentAccount, files, storage, blobObjectId>>
  /\ IF UploadSucceeded(outcome)
     THEN /\ cert' = [cert EXCEPT ![c] =
                 [blobId |-> BlobIdOf(files[c][1]), sigs |-> n]]
          /\ pc' = [pc EXCEPT ![c] = "Registering"]
          /\ hist' = [hist EXCEPT ![c] = Append(@, FollowingRequest("upload"))]
          /\ UNCHANGED <<ret, blobs, loading, error>>
     ELSE /\ Abort(c, StoreError("upload", outcome))
          /\ UNCHANGED <<cert, hist>>

\* registerBlob after the signer returned, then certifyBlob's transaction
RegisterDone(c, outcome) ==
  /\ pc[c] = "Registering"
  /\ res' = [res EXCEPT ![c] = outcome]
  /\ UNCHANGED <<currentAccount, files, storage, cert>>
  /\ IF RegisterSucceeded(outcome)
     THEN /\ blobObjectId' = [blobObjectId EXCEPT ![c] =
                 IF outcome = "ok" THEN "object" ELSE "none"]
          /\ pc' = [pc EXCEPT ![c] = "Certifying"]
          /\ hist' = [hist EXCEPT ![c] = Append(@, FollowingRequest("register"))]
          /\ UNCHANGED <<ret, blobs, loading, error>>
     ELSE /\ Abort(c, StoreError("register", outcome))
          /\ UNCHANGED <<blobObjectId, hist>>

\* certifyBlob after the signer returned; store returns and useWalrus.store
\* dispatches ADD_BLOB
CertifyDone(c, outcome) ==
  /\ pc[c] = "Certifying"
  /\ res' = [res EXCEPT ![c] = outcome]
  /\ UNCHANGED <<currentAccount, files, storage, cert, blobObjectId, hist>>
  /\ IF outcome = "ok"
     THEN /\ pc' = [pc EXCEPT ![c] = "Committed"]
          /\ ret' = [ret EXCEPT ![c] = [kind |-> "result",
                                         blobId |-> cert[c].blobId,
                                         suiObjectId |-> blobObjectId[c]]]
          /\ blobs' = Append(blobs, [id |-> cert[c].blobId,
                                     size |-> TotalSize(files[c])])
          /\ loading' = FALSE
          /\ UNCHANGED error
     ELSE Abort(c, StoreError("certify", outcome))

\* ================================================================ Seal
\* package ids as the callers write them, with or without the 0x prefix
PackageIds == {"0xA", "A", "0xB", "B"}

\* key servers of the network configuration
Servers == {"ks1", "ks2"}

\* ttlMin arguments, in clock ticks
TTLs == {1}

\* sealConfig.defaultThreshold
DefaultThreshold == 2

\* parsed EncryptedObject headers offered for decryption
EncObjects == [packageId : PackageIds, threshold : 1..Cardinality(Servers),
               id : {<<171>>}, sealed : {<<1>>}]

NoObject == [packageId |-> "none", threshold |-> 0, id |-> <<>>,
             sealed |-> <<>>]

IdleCreate == [pc |-> "idle", key |-> 0]

IdleDecrypt == [pc |-> "idle", entry |-> "none", key |-> 0, obj |-> NoObject,
                startedAt |-> 0, sig |-> "none", shares |-> 0,
                approved |-> FALSE, outcome |-> "none", data |-> <<>>]

\* packageId.startsWith('0x') ? packageId : `0x${packageId}`
NormalizePackageId(p) ==
  CASE p = "A" -> "0xA"
    [] p = "B" -> "0xB"
    [] OTHER -> p

\* the hexadecimal digits of an id, its canonical form
Canon(p) ==
  CASE p = "0xA" -> "A"
    [] p = "0xB" -> "B"
    [] OTHER -> p

\* the continuation of a settled decrypt runs before any other handler
NoResultPending == dec.pc # "done"

\* Date.now() advances
Tick ==
  /\ NoResultPending
  /\ now < MaxTime
  /\ now' = now + 1
  /\ UNCHANGED <<skeys, sessionKeys, cr, dec, fk>>

\* createSessionKeyInternal with the failure of the wallet signature ignored
SigningFailureIgnored(approved) == TRUE

\* createSessionKeyInternal: signPersonalMessage resolved and the signature
\* was set; otherwise 'Session key signing failed' is thrown
SigningSucceeded(approved) == approved

\* createSessionKeyInternal up to the wallet request: SessionKey.create gives
\* an unsigned key; without a signing function (signer false) the creation
\* throws, the key is dropped and nothing has changed
CreateSessionKeyStart(pkg, ttl, signer) ==
  /\ NoResultPending
  /\ cr.pc = "idle"
  /\ Len(skeys) < MaxKeys
  /\ signer
  /\ skeys' = Append(skeys, [id |-> 0, packageId |-> NormalizePackageId(pkg),
                             ttl |-> ttl, createdAt |-> 0, expiresAt |-> 0,
                             isActive |-> FALSE, sig |-> "none",
                             walletSigned |-> FALSE])
  /\ cr' = [pc |-> "signing", key |-> Len(skeys) + 1]
  /\ UNCHANGED <<now, sessionKeys, dec, fk>>

\* createSessionKeyInternal after the wallet answered; on success the hook
\* dispatches ADD_SESSION_KEY (newSessionKeys.set(id, payload)), on failure
\* the creation throws and the unsigned key is dropped
CreateSessionKeySigned(approved) ==
  /\ NoResultPending
  /\ cr.pc = "signing"
  /\ cr' = IdleCreate
  /\ IF SigningSucceeded(approved)
     THEN /\ skeys' = [skeys EXCEPT ![cr.key] =
                 [@ EXCEPT !.id = now, !.createdAt = now,
                           !.expiresAt = now + skeys[cr.key].ttl,
                           !.isActive = TRUE,
                           !.sig = IF approved THEN "wallet" ELSE "none",
                           !.walletSigned = approved]]
          /\ sessionKeys' = [sessionKeys EXCEPT ![now] = cr.key]
     ELSE /\ skeys' = SubSeq(skeys, 1, Len(skeys) - 1)
          /\ UNCHANGED sessionKeys
  /\ UNCHANGED <<now, dec, fk>>

\* SealService.signSessionKey: the given string, cut or padded to 128
\* characters, is set on the key and the key is marked active
SignSessionKey(k, sigKind) ==
  /\ NoResultPending
  /\ k \in 1..Len(skeys)
  /\ skeys[k].id # 0
  /\ skeys' = [skeys EXCEPT ![k] =
        [@ EXCEPT !.sig = sigKind, !.isActive = TRUE,
                  !.walletSigned = @ \/ sigKind = "wallet"]]
  /\ UNCHANGED <<now, sessionKeys, cr, dec, fk>>

\* appReducer REMOVE_SESSION_KEY
RemoveSessionKey(id) ==
  /\ NoResultPending
  /\ sessionKeys[id] # 0
  /\ sessionKeys' = [sessionKeys EXCEPT ![id] = 0]
  /\ UNCHANGED <<now, skeys, cr, dec, fk>>

\* the decrypt entry points: SealService.decrypt, useSeal.decrypt, the
\* DecryptionPanel with session key checks and the one without
Entries == {"service", "hook", "panelChecked", "panelPlain"}

NoFetch == [outcome |-> "none", threshold |-> 0, responded |-> 0, keys |-> {}]

\* DecryptionPanel.handleDecrypt: sessionKey.expiresAt && now > sessionKey.expiresAt
PanelExpired(key, t) == key.expiresAt # 0 /\ t > key.expiresAt

\* DecryptionPanel.handleDecrypt: sessionKey.packageId !== encryptedObject.packageId
PanelIncompatible(key, obj) == key.packageId # obj.packageId

\* what an entry point decides before SealService.decrypt reaches the wallet
\* and the SDK: "go", or the alert / error it stops with
EntryVerdict(entry, k, obj, connected, hasTx) ==
  IF entry \in {"panelChecked", "panelPlain"} /\ ~connected THEN "alert:wallet"
  ELSE IF k = 0 THEN "alert:notfound"
  ELSE IF entry = "panelChecked" /\ PanelExpired(skeys[k], now)
    THEN "alert:expired"
  ELSE IF entry = "panelChecked" /\ ~skeys[k].isActive THEN "alert:unsigned"
  ELSE IF entry = "panelChecked" /\ PanelIncompatible(skeys[k], obj)
    THEN "alert:incompatible"
  ELSE IF ~hasTx THEN "error:noTx"
  ELSE "go"

\* sealClient.decrypt of the Seal SDK: the key servers answer a certificate
\* signed by the wallet, unexpired and for the object's package, when the
\* policy approves; the object opens with at least threshold shares
SdkDecryptOk(key, obj, responders, approve, t) ==
  /\ key.sig = "wallet"
  /\ t < key.expiresAt
  /\ Canon(key.packageId) = Canon(obj.packageId)
  /\ approve
  /\ Cardinality(responders) >= obj.threshold

\* SealService.decrypt returning data although the SDK call failed
DecryptOutcomeSwallowed(sdkOk) == "plaintext"

\* SealService.decrypt: return decryptedData, or rethrow as 'Decryption failed'
DecryptOutcome(sdkOk) == IF sdkOk THEN "plaintext" ELSE "error:Decryption failed"

\* sealClient.decrypt of the Seal SDK: a successful call yields the bytes
\* that were sealed in the object
SdkDecryptResult(obj) == obj.sealed

\* SealService.decrypt with the debug preview (slice(0, 1) here) returned
DecryptedDataPreview(sdkOk, plain) ==
  IF sdkOk /\ plain # <<>> THEN SubSeq(plain, 1, 1) ELSE <<>>

\* SealService.decrypt: return decryptedData
DecryptedData(sdkOk, plain) == IF sdkOk THEN plain ELSE <<>>

\* a decrypt is started at one of the entry points; panels take the key
\* from the session key store, the service and the hook take any key record
DecryptStart(entry, k, obj, connected, hasTx, signer) ==
  /\ dec.pc = "idle"
  /\ IF entry \in {"panelChecked", "panelPlain"}
     THEN k = 0 \/ \E id \in 1..MaxTime : sessionKeys[id] = k
     ELSE k # 0 /\ skeys[k].id # 0
  /\ LET v == EntryVerdict(entry, k, obj, connected, hasTx) IN
     dec' = [pc |-> IF v # "go" THEN "done"
                    ELSE IF signer THEN "signing" ELSE "sdk",
             entry |-> entry, key |-> k, obj |-> obj, startedAt |-> now,
             sig |-> "none", shares |-> 0, approved |-> FALSE,
             outcome |-> IF v # "go" THEN v ELSE "none", data |-> <<>>]
  /\ UNCHANGED <<now, skeys, sessionKeys, cr, fk>>

\* SealService.decrypt after the wallet answered the signing request: a
\* signature is set on the key; a failure is logged and decrypt goes on
DecryptWalletSigned(approved) ==
  /\ dec.pc = "signing"
  /\ dec' = [dec EXCEPT !.pc = "sdk"]
  /\ skeys' = IF approved
              THEN [skeys EXCEPT ![dec.key] =
                      [@ EXCEPT !.sig = "wallet", !.walletSigned = TRUE]]
              ELSE skeys
  /\ UNCHANGED <<now, sessionKeys, cr, fk>>

\* SealService.decrypt after sealClient.decrypt settled
SdkDecryptDone(responders, approve) ==
  /\ dec.pc = "sdk"
  /\ LET sdkOk == SdkDecryptOk(skeys[dec.key], dec.obj, responders, approve,
                            now) IN
     dec' = [dec EXCEPT
        !.pc = "done",
        !.sig = skeys[dec.key].sig,
        !.shares = Cardinality(responders),
        !.approved = approve,
        !.outcome = DecryptOutcome(sdkOk),
        !.data = DecryptedData(sdkOk, SdkDecryptResult(dec.obj))]
  /\ UNCHANGED <<now, skeys, sessionKeys, cr, fk>>

\* the caller of decrypt takes the result or the error
DecryptReturn ==
  /\ dec.pc = "done"
  /\ dec' = IdleDecrypt
  /\ UNCHANGED <<now, skeys, sessionKeys, cr, fk>>

\* fetchKeys passing the threshold of the first key server descriptor
FetchThresholdOfServer(threshold) == 1

\* fetchKeys: threshold || this.config.defaultThreshold (0: argument omitted)
FetchThreshold(threshold) ==
  IF threshold # 0 THEN threshold ELSE DefaultThreshold

\* sealClient.fetchKeys of the Seal SDK: resolves when at least the requested
\* number of key servers answered the signed, approved request
SdkFetchKeysOk(key, requested, responders, approve) ==
  /\ key.sig = "wallet"
  /\ approve
  /\ Cardinality(responders) >= requested

\* SealService.fetchKeys: the SDK result converted to a Map, or the error
\* rethrown as 'Key fetching failed'
FetchKeys(k, threshold, responders, approve) ==
  /\ k \in 1..Len(skeys)
  /\ skeys[k].id # 0
  /\ fk' = IF SdkFetchKeysOk(skeys[k], FetchThreshold(threshold), responders,
                             approve)
           THEN [outcome |-> "map", threshold |-> threshold,
                 responded |-> Cardinality(responders), keys |-> responders]
           ELSE [outcome |-> "error:Key fetching failed",
                 threshold |-> threshold,
                 responded |-> Cardinality(responders), keys |-> {}]
  /\ UNCHANGED <<now, skeys, sessionKeys, cr, dec>>

\* ============================================================ encrypt
\* number of random bytes of a policy id made by createPolicy (32 in the
\* code); ids are sequences of characters, two hexadecimal digits a byte
IdBytes == 1

Networks == {"testnet", "mainnet"}

\* NETWORK_CONFIG[network].seal.keyServers
KeyServersOf(network) ==
  IF network = "testnet" THEN {"ks1", "ks2"} ELSE {"ks1"}

\* NETWORK_CONFIG[network].seal.defaultThreshold
DefaultThresholdOf(network) == 2

\* NETWORK_CONFIG[network].seal.packageId
PackageIdOf(network) == IF network = "testnet" THEN "0xA" ELSE "0xB"

HexChars == {"0", "a", "b"}

\* value of a hexadecimal digit
HexValue(ch) == CASE ch = "a" -> 10 [] ch = "b" -> 11 [] OTHER -> 0

\* b.toString(16).padStart(2, '0') of the bytes crypto.getRandomValues gives
RandomHexIds == {<<"a", "b">>, <<"b", "a">>, <<"0", "b">>}

\* s.startsWith('0x')
StartsWith0x(s) == Len(s) >= 2 /\ s[1] = "0" /\ s[2] = "x"

\* the id passed on with its 0x prefix
StripPrefixKept(s) == s

\* id.startsWith('0x') ? id.slice(2) : id
StripPrefix(s) == IF StartsWith0x(s) THEN SubSeq(s, 3, Len(s)) ELSE s

IsHexString(s) == \A i \in 1..Len(s) : s[i] \in HexChars

\* fromHEX: the bytes of a string of hexadecimal digits
RECURSIVE FromHex(_)
FromHex(s) ==
  IF Len(s) < 2 THEN <<>>
  ELSE <<16 * HexValue(s[1]) + HexValue(s[2])>> \o FromHex(SubSeq(s, 3, Len(s)))

\* payloads handed to encrypt
Datas == {<<>>, <<1>>, <<1, 2>>}

NoPolicy == [threshold |-> 0, packageId |-> "", id |-> <<>>,
             keyServers |-> {}, path |-> "none"]

\* useSeal.createPolicy: threshold, package and key servers of the network
\* configuration and a random hexadecimal id
CreatePolicy(network, hexId) ==
  [threshold |-> DefaultThresholdOf(network),
   packageId |-> PackageIdOf(network),
   id |-> hexId,
   keyServers |-> KeyServersOf(network),
   path |-> "createPolicy"]

\* EncryptionPanel.handleEncrypt: { ...createPolicy(policyType), id:
\* `${policyType}_${Date.now()}_${random}` }
PanelPolicy(network, hexId, t) ==
  [CreatePolicy(network, hexId) EXCEPT
     !.id = <<"p", "_">> \o (IF t = 1 THEN <<"1">> ELSE <<"2">>) \o <<"_", "r">>,
     !.path = "panel"]

\* EncryptedFileUploader.handleEncryptAndUpload: createPolicy(policyType)
UploaderPolicy(network, hexId) ==
  [CreatePolicy(network, hexId) EXCEPT !.path = "uploader"]

\* policies written by a direct caller of SealService.encrypt
DirectPolicies ==
  [threshold : 0..3, packageId : {"", "A", "0xA"},
   id : {<<>>, <<"a", "b">>, <<"0", "x", "a", "b">>},
   keyServers : {Servers}, path : {"direct"}]

IdleEncrypt == [pc |-> "idle", data |-> <<>>, policy |-> NoPolicy,
                threshold |-> 0, packageId |-> "", id |-> <<>>,
                object |-> NoObject, key |-> 0, outcome |-> "none",
                resultId |-> <<>>, resultPackageId |-> ""]

\* SealService.encrypt: the checks of its arguments
EncryptVerdict(data, policy) ==
  IF policy.packageId = "" THEN "error:Invalid packageId"
  ELSE IF policy.id = <<>> THEN "error:Invalid policy id"
  ELSE IF Len(data) = 0 THEN "error:Data to encrypt cannot be empty"
  ELSE "go"

\* sealClient.encrypt of the Seal SDK: the client holds the two key servers
\* of initializeSealClient and takes a threshold between 1 and their number
SdkEncryptOk(threshold) == 1 <= threshold /\ threshold <= Cardinality(Servers)

\* sealClient.encrypt of the Seal SDK: the encrypted object carries the
\* package id, the id bytes, the threshold and the sealed data
SdkEncryptObject(e) ==
  [packageId |-> e.packageId, threshold |-> e.threshold,
   id |-> FromHex(e.id), sealed |-> e.data]

\* SealService.encrypt up to the call of sealClient.encrypt with threshold,
\* normalizedPackageId, normalizedId and data
EncryptStart(data, policy) ==
  /\ NoResultPending
  /\ enc.pc = "idle"
  /\ LET v == EncryptVerdict(data, policy) IN
     enc' = [IdleEncrypt EXCEPT
        !.pc = IF v = "go" THEN "sdk" ELSE "done",
        !.data = data,
        !.policy = policy,
        !.threshold = policy.threshold,
        !.packageId = NormalizePackageId(policy.packageId),
        !.id = StripPrefix(policy.id),
        !.outcome = IF v = "go" THEN "none" ELSE v]
  /\ UNCHANGED <<sealVars, vk, tx, adm>>

\* SealService.encrypt after sealClient.encrypt settled: on success it goes
\* on to createSessionKeyInternal(normalizedPackageId, 10)
EncryptSdkDone(accepted, signer, ttl) ==
  /\ enc.pc = "sdk"
  /\ cr.pc = "idle"
  /\ Len(skeys) < MaxKeys
  /\ IF accepted /\ SdkEncryptOk(enc.threshold) /\ signer
     THEN /\ CreateSessionKeyStart(enc.packageId, ttl, signer)
          /\ UNCHANGED <<vk, tx, adm>>
          /\ enc' = [enc EXCEPT !.pc = "key",
                                !.object = SdkEncryptObject(enc),
                                !.key = Len(skeys) + 1]
     ELSE /\ enc' = [enc EXCEPT !.pc = "done",
                                !.outcome = "error:Encryption failed"]
          /\ UNCHANGED <<sealVars, vk, tx, adm>>

\* SealService.encrypt after createSessionKeyInternal settled: the result
\* carries the encrypted data, the session key, the id as given by the
\* caller and the normalized package id
EncryptReturn ==
  /\ NoResultPending
  /\ enc.pc = "key"
  /\ cr.pc = "idle"
  /\ IF enc.key <= Len(skeys) /\ skeys[enc.key].id # 0
     THEN enc' = [enc EXCEPT !.pc = "done", !.outcome = "result",
                             !.resultId = enc.policy.id,
                             !.resultPackageId = enc.packageId]
     ELSE enc' = [enc EXCEPT !.pc = "done", !.key = 0,
                             !.outcome = "error:Encryption failed"]
  /\ UNCHANGED <<sealVars, vk, tx, adm>>

\* ======================================= buildSealApproveTransaction
NoTx == [pc |-> "idle", packageId |-> "", id |-> <<>>, target |-> "",
         idBytes |-> <<>>, signed |-> FALSE, submitted |-> FALSE,
         outcome |-> "none"]

\* ids a caller passes to buildSealApproveTransaction
TxIds == {<<"a", "b">>, <<"0", "x", "a", "b">>, <<"b", "a">>}

\* a transaction that is signed and executed through the wallet
BuiltTransactionExecuted(packageId, id) ==
  [NoTx EXCEPT !.pc = "done", !.packageId = packageId, !.id = id,
               !.target = NormalizePackageId(packageId),
               !.idBytes = FromHex(StripPrefix(id)),
               !.signed = TRUE, !.submitted = TRUE,
               !.outcome = "built"]

\* tx.moveCall({target: `${normalizedPackageId}::...`, arguments:
\* [tx.pure.vector('u8', fromHEX(normalizedId)), ...]}) and
\* tx.build({client, onlyTransactionKind: true}): bytes of the transaction
\* kind, neither signed nor submitted
BuiltTransaction(packageId, id) ==
  [NoTx EXCEPT !.pc = "done", !.packageId = packageId, !.id = id,
               !.target = NormalizePackageId(packageId),
               !.idBytes = FromHex(StripPrefix(id)),
               !.outcome = "built"]

\* SealService.buildSealApproveTransaction; a failure of tx.build is
\* rethrown as 'Transaction building failed'
BuildSealApproveTransaction(packageId, id, buildOk) ==
  /\ tx.pc = "idle"
  /\ tx' = IF buildOk THEN BuiltTransaction(packageId, id)
           ELSE [NoTx EXCEPT !.pc = "done", !.packageId = packageId,
                             !.id = id,
                             !.outcome = "error:Transaction building failed"]
  /\ UNCHANGED <<sealVars, enc, vk, adm>>

\* ================================================== verifyKeyServers
\* ids a caller may list: the configured key servers and an unknown one
ServerIds == Servers \cup {"ksX"}

\* what the fetch of /v1/service of one key server ends with
ServiceAnswers ==
  {[kind |-> "ok", objectId |-> id] : id \in Servers}
    \cup {[kind |-> k, objectId |-> "none"] :
            k \in {"notOk", "networkError", "badJson"}}

NoAnswer == [kind |-> "none", objectId |-> "none"]

IdleVerify == [pc |-> "idle", ids |-> <<>>, answers |-> <<>>,
               results |-> <<>>, result |-> FALSE]

\* this.config.keyServers.find(ks => ks.id === serverId)
Configured(serverId) == serverId \in Servers

\* the check of one answer without the comparison of the object id
AnswerVerifiedAnyObject(serverId, answer) == answer.kind = "ok"

\* response.ok and data.objectId === serverId; a failed fetch or a body
\* that is not JSON is caught and gives false
AnswerVerified(serverId, answer) ==
  answer.kind = "ok" /\ answer.objectId = serverId

\* verifyKeyServers: serverIds.map starts one check per listed id; an id
\* that is not configured gives false without a request
VerifyStart(ids) ==
  /\ vk.pc = "idle"
  /\ vk' = [pc |-> "pending", ids |-> ids,
            answers |-> [i \in 1..Len(ids) |-> NoAnswer],
            results |-> [i \in 1..Len(ids) |->
                          IF Configured(ids[i]) THEN "pending" ELSE "false"],
            result |-> FALSE]
  /\ UNCHANGED <<sealVars, enc, tx, adm>>

\* the fetch of the i-th check settled
VerifyFetchDone(i, answer) ==
  /\ vk.pc = "pending"
  /\ i \in 1..Len(vk.ids)
  /\ vk.results[i] = "pending"
  /\ vk' = [vk EXCEPT
        !.answers[i] = answer,
        !.results[i] = IF AnswerVerified(vk.ids[i], answer) THEN "true"
                       ELSE "false"]
  /\ UNCHANGED <<sealVars, enc, tx, adm>>

\* Promise.all settled: results.every(result => result)
VerifyReturn ==
  /\ vk.pc = "pending"
  /\ \A i \in 1..Len(vk.ids) : vk.results[i] # "pending"
  /\ vk' = [vk EXCEPT !.pc = "done",
                      !.result = \A i \in 1..Len(vk.ids) :
                                   vk.results[i] = "true"]
  /\ UNCHANGED <<sealVars, enc, tx, adm>>

\* the caller takes the answer of verifyKeyServers
VerifyReset ==
  /\ vk.pc = "done"
  /\ vk' = IdleVerify
  /\ UNCHANGED <<sealVars, enc, tx, adm>>

\* ================================ status, extend, delete, systemInfo
\* how the hook holds the service: not at all (no account connected),
\* built from the configuration alone (no Sui client, no signer), or built
\* with Sui client, signer and address
Services == {"null", "bare", "full"}

AdminOps == {"status", "extend", "delete", "systemInfo"}

BlobIds == {BlobIdOf(d) : d \in Payloads}

IdleAdmin == [pc |-> "idle", op |-> "none", service |-> "none",
              blobId |-> "none", exists |-> FALSE, owned |-> FALSE,
              requests |-> <<>>, outcome |-> "none", error |-> "none"]

Statuses == {"stored", "not_found"}

\* handleError: a rejected operation leaves its message in the hook's error
\* state; clearError ran when the operation started
HookError(outcome) == IF outcome \in Statuses \cup {"ok", "none"} THEN "none"
                      ELSE outcome

\* what the operation does first: the hook refuses without a service;
\* systemInfo throws 'System info is only available via Walrus CLI';
\* extend calls this.signTransaction and status and delete call
\* this.suiClient.getOwnedObjects, which are undefined in a bare service
FirstStep(op, service) ==
  IF service = "null" THEN "error:not initialized"
  ELSE IF op = "systemInfo" THEN "error:unsupported"
  ELSE IF service = "bare" THEN "error:TypeError"
  ELSE IF op = "extend" THEN "chain:extend"
  ELSE "rpc:getOwnedObjects"

IsError(step) == step \in {"error:not initialized", "error:unsupported",
                           "error:TypeError"}

\* the hook operation up to the first await that leaves the process;
\* exists: the aggregator holds the blob
AdminCall(op, service, blobId, exists) ==
  /\ adm.pc = "idle"
  /\ LET step == FirstStep(op, service) IN
     adm' = [IdleAdmin EXCEPT
        !.pc = IF IsError(step) THEN "done"
               ELSE IF op = "extend" THEN "signing" ELSE "lookup",
        !.op = op, !.service = service, !.blobId = blobId,
        !.exists = exists,
        !.requests = IF IsError(step) THEN <<>> ELSE <<step>>,
        !.outcome = IF IsError(step) THEN step ELSE "none",
        !.error = IF IsError(step) THEN step ELSE "none"]
  /\ UNCHANGED <<sealVars, enc, vk, tx>>

\* after getOwnedObjects: blobObjects.data.find(blob_id === blobId); status
\* returns not_found and delete throws when the caller owns no such object
AfterLookup(op, found) ==
  IF ~found THEN (IF op = "status" THEN "not_found"
                  ELSE "error:Blob object not found")
  ELSE IF op = "status" THEN "http:HEAD"
  ELSE "chain:delete"

\* getOwnedObjects settled
AdminLookupDone(rpcOk, found) ==
  /\ adm.pc = "lookup"
  /\ LET step == IF rpcOk THEN AfterLookup(adm.op, found) ELSE "error:rpc" IN
     adm' = [adm EXCEPT
        !.owned = rpcOk /\ found,
        !.pc = IF step = "http:HEAD" THEN "head"
               ELSE IF step = "chain:delete" THEN "signing" ELSE "done",
        !.requests = IF step \in {"http:HEAD", "chain:delete"}
                     THEN Append(@, step) ELSE @,
        !.outcome = IF step \in {"http:HEAD", "chain:delete"} THEN "none"
                    ELSE step,
        !.error = IF step \in {"http:HEAD", "chain:delete"} THEN "none"
                  ELSE HookError(step)]
  /\ UNCHANGED <<sealVars, enc, vk, tx>>

\* signTransaction of extend or delete settled
AdminSignDone(ok) ==
  /\ adm.pc = "signing"
  /\ LET outcome == IF ok THEN "ok" ELSE "error:rejected" IN
     adm' = [adm EXCEPT !.pc = "done", !.outcome = outcome,
                        !.error = HookError(outcome)]
  /\ UNCHANGED <<sealVars, enc, vk, tx>>

\* status: response.ok ? 'stored' : 'not_found'; a failed fetch throws
AdminHeadDone(reached) ==
  /\ adm.pc = "head"
  /\ LET outcome == IF ~reached THEN "error:network"
                    ELSE IF adm.exists THEN "stored" ELSE "not_found" IN
     adm' = [adm EXCEPT !.pc = "done", !.outcome = outcome,
                        !.error = HookError(outcome)]
  /\ UNCHANGED <<sealVars, enc, vk, tx>>

\* the caller takes the result; the error message stays until the next
\* operation
AdminReset ==
  /\ adm.pc = "done"
  /\ adm' = [IdleAdmin EXCEPT !.error = adm.error]
  /\ UNCHANGED <<sealVars, enc, vk, tx>>

\* ============================================== useSeal and AppContext
\* concurrent invocations of hook operations
OpSlots == {1, 2}

OpKinds == {"encrypt", "createSessionKey", "signSessionKey"}

\* a run of the initialisation effect: its network, isCancelled, and how
\* far initService has come
NewRun(network) == [network |-> network, isCancelled |-> FALSE,
                    pc |-> "importing"]

\* an operation with the isInitialized, sealService and
\* initializationPromise its callback closed over
IdleOp == [pc |-> "idle", kind |-> "none", isInitialized |-> FALSE,
           sealService |-> 0, initializationPromise |-> 0, key |-> 0,
           outcome |-> "none"]

\* appReducer SET_NETWORK: seal is {...state.seal, keyServers}, so the
\* session keys stay
NetworkSwitchKeys(keys) == keys

\* SET_NETWORK and the effect it triggers: the cleanup cancels the earlier
\* run, initService starts with setIsInitialized(false), setError(null)
SetNetwork(network) ==
  /\ Len(runs) < MaxRuns
  /\ app' = [app EXCEPT !.network = network]
  /\ sessionKeys' = NetworkSwitchKeys(sessionKeys)
  /\ runs' = Append([r \in DOMAIN runs |-> [runs[r] EXCEPT !.isCancelled = TRUE]],
                    NewRun(network))
  /\ hook' = [hook EXCEPT !.isInitialized = FALSE, !.error = "none"]
  /\ UNCHANGED <<now, skeys, ops>>

\* appReducer SET_WALLET
SetWallet(connected) ==
  /\ app' = [app EXCEPT !.wallet = connected]
  /\ UNCHANGED <<now, skeys, sessionKeys, hook, runs, ops>>

\* the catch block of initService
InitFailed(h, r) ==
  IF runs[r].isCancelled THEN h
  ELSE [h EXCEPT !.error = "Failed to initialize Seal service",
                 !.isInitialized = FALSE, !.sealService = 0]

\* initService after the import: the service and its initialisation promise
\* exist; the promise is stored unless the run was cancelled
InitImported(r, ok) ==
  /\ r \in DOMAIN runs
  /\ runs[r].pc = "importing"
  /\ runs' = [runs EXCEPT ![r].pc = IF ok THEN "initializing" ELSE "failed"]
  /\ hook' = IF ~ok THEN InitFailed(hook, r)
             ELSE IF runs[r].isCancelled THEN hook
             ELSE [hook EXCEPT !.initializationPromise = r]
  /\ UNCHANGED <<now, skeys, sessionKeys, app, ops>>

\* the then-callback of initializeSealClient with the isCancelled test left
\* out
InitResolvedUnguarded(h, r) ==
  [h EXCEPT !.isInitialized = TRUE, !.sealService = r]

\* the then-callback of initializeSealClient
InitResolved(h, r) ==
  IF runs[r].isCancelled THEN h
  ELSE [h EXCEPT !.isInitialized = TRUE, !.sealService = r]

\* initializeSealClient settled
InitSettled(r, ok) ==
  /\ r \in DOMAIN runs
  /\ runs[r].pc = "initializing"
  /\ runs' = [runs EXCEPT ![r].pc = IF ok THEN "resolved" ELSE "rejected"]
  /\ hook' = IF ok THEN InitResolved(hook, r) ELSE InitFailed(hook, r)
  /\ UNCHANGED <<now, skeys, sessionKeys, app, ops>>

\* waitForInitialization up to its await, on the values the callback closed
\* over
WaitStart(isInitialized, sealService, initializationPromise) ==
  IF isInitialized /\ sealService # 0 THEN "service"
  ELSE IF initializationPromise # 0 THEN "waiting"
  ELSE "error:Seal service failed to initialize"

\* waitForInitialization after the awaited promise settled: a rejection is
\* rethrown, otherwise the values the callback closed over are tested again
WaitEnd(op, settled) ==
  IF settled = "rejected" THEN "error:Seal SDK initialization failed"
  ELSE IF ~op.isInitialized \/ op.sealService = 0
       THEN "error:Seal service failed to initialize"
  ELSE "service"

IsFailure(step) == step \notin {"service", "waiting", "result", "true"}

\* finally { setLoading(false) } of an operation
LoadingAfter(o) == FALSE

\* an operation of the hook is invoked: setLoading(true), clearError(),
\* waitForInitialization
OpStart(o, kind, k) ==
  /\ ops[o].pc = "idle"
  /\ IF kind = "signSessionKey" THEN k \in 1..Len(skeys) ELSE k = 0
  /\ LET step == WaitStart(hook.isInitialized, hook.sealService,
                           hook.initializationPromise) IN
     /\ ops' = [ops EXCEPT ![o] =
          [pc |-> IF IsFailure(step) THEN "done" ELSE step, kind |-> kind,
           isInitialized |-> hook.isInitialized,
           sealService |-> hook.sealService,
           initializationPromise |-> hook.initializationPromise,
           key |-> k, outcome |-> IF IsFailure(step) THEN step ELSE "none"]]
     /\ hook' = IF IsFailure(step)
                THEN [hook EXCEPT !.loading = LoadingAfter(o), !.error = step]
                ELSE [hook EXCEPT !.loading = TRUE, !.error = "none"]
  /\ UNCHANGED <<now, skeys, sessionKeys, app, runs>>

\* the promise an operation waits for has settled
OpWaited(o) ==
  /\ ops[o].pc = "waiting"
  /\ runs[ops[o].initializationPromise].pc \in {"resolved", "rejected"}
  /\ LET step == WaitEnd(ops[o], runs[ops[o].initializationPromise].pc) IN
     /\ ops' = [ops EXCEPT ![o].pc = IF IsFailure(step) THEN "done" ELSE step,
                           ![o].outcome = IF IsFailure(step) THEN step
                                          ELSE "none"]
     /\ hook' = IF IsFailure(step)
                THEN [hook EXCEPT !.loading = LoadingAfter(o), !.error = step]
                ELSE hook
  /\ UNCHANGED <<now, skeys, sessionKeys, app, runs>>

\* createSessionKeyInternal: the key object the service returns
NewSessionKey(network, ttl, t) ==
  [id |-> t, packageId |-> NormalizePackageId(PackageIdOf(network)),
   ttl |-> ttl, createdAt |-> t, expiresAt |-> t + ttl, isActive |-> TRUE,
   sig |-> "wallet", walletSigned |-> TRUE]

\* appReducer ADD_SESSION_KEY: newSessionKeys.set(payload.id, payload)
AddSessionKey(keys, id, k) == [keys EXCEPT ![id] = k]

\* appReducer on UPDATE_SESSION_KEY: no case matches, default returns state
UpdateSessionKey(keys, id, k) == keys

\* the service call of encrypt or createSessionKey settled; on success the
\* hook dispatches ADD_SESSION_KEY with the returned session key
OpKeyCreated(o, ok, ttl) ==
  /\ ops[o].pc = "service"
  /\ ops[o].kind \in {"encrypt", "createSessionKey"}
  /\ ok => Len(skeys) < MaxKeys
  /\ LET step == IF ok THEN "result"
                 ELSE IF ops[o].kind = "encrypt" THEN "error:Encryption failed"
                 ELSE "error:Session key creation failed" IN
     /\ ops' = [ops EXCEPT ![o].pc = "done", ![o].outcome = step,
                           ![o].key = IF ok THEN Len(skeys) + 1 ELSE 0]
     /\ hook' = [hook EXCEPT !.loading = LoadingAfter(o),
                             !.error = IF ok THEN @ ELSE step]
  /\ IF ok
     THEN /\ skeys' = Append(skeys,
                  NewSessionKey(runs[ops[o].sealService].network, ttl, now))
          /\ sessionKeys' = AddSessionKey(sessionKeys, now, Len(skeys) + 1)
     ELSE UNCHANGED <<skeys, sessionKeys>>
  /\ UNCHANGED <<now, app, runs>>

\* SealService.signSessionKey settled: a key object without
\* setPersonalMessageSignature (valid false) makes it throw; otherwise the
\* signature is set on the object the caller passed, it is marked active and
\* the hook dispatches UPDATE_SESSION_KEY
OpKeySigned(o, valid) ==
  /\ ops[o].pc = "service"
  /\ ops[o].kind = "signSessionKey"
  /\ LET step == IF valid THEN "true"
                 ELSE "error:Session key signing failed"
         k == ops[o].key IN
     /\ ops' = [ops EXCEPT ![o].pc = "done", ![o].outcome = step]
     /\ hook' = [hook EXCEPT !.loading = LoadingAfter(o),
                             !.error = IF valid THEN @ ELSE step]
     /\ IF valid
        THEN /\ skeys' = [skeys EXCEPT ![k] =
                    [@ EXCEPT !.sig = "other", !.isActive = TRUE]]
             /\ sessionKeys' = UpdateSessionKey(sessionKeys, skeys[k].id, k)
        ELSE UNCHANGED <<skeys, sessionKeys>>
  /\ UNCHANGED <<now, app, runs>>

\* the caller takes the result of an operation
OpReturn(o) ==
  /\ ops[o].pc = "done"
  /\ ops' = [ops EXCEPT ![o] = IdleOp]
  /\ UNCHANGED <<now, skeys, sessionKeys, app, hook, runs>>

\* ============================================== EncryptedFileUploader
\* the two forms of the component: the one that encrypts straight from the
\* file selection and the one with a session key step
UploaderForms == {"inline", "session"}

\* the selections handleFileSelect can leave in files
Selections == UNION {[1..n -> Payloads] : n \in 0..MaxFiles}

IdleUploader(form) ==
  [form |-> form, pc |-> "idle", files |-> <<>>, currentStep |-> "select",
   processing |-> FALSE, i |-> 0, encryptedFiles |-> <<>>,
   stored |-> <<>>, storeCalled |-> FALSE]

\* the field of the encryption result each form wraps into a File
FieldRead(form) == IF form = "inline" THEN "encryptedObject"
                   ELSE "encryptedData"

\* SealService.encrypt returns {encryptedData, id, packageId, threshold,
\* sessionKey, policy}; any other field reads as undefined
ReadResult(field, d) ==
  [of |-> d, content |-> IF field = "encryptedData" THEN "ciphertext"
                         ELSE "undefined"]

\* a failed encrypt (null) in the loop over the files: the inline form
\* goes on with the next file, the session form throws
FailedFileThrows(form) == form = "session"

\* handleFileSelect (files limited to the first three valid ones)
HandleFileSelect(form, fl) ==
  /\ up.pc \in {"idle", "done", "refused"}
  /\ up.currentStep = "select"
  /\ up' = [IdleUploader(form) EXCEPT !.files = fl]
  /\ UNCHANGED allButUploader

\* startUploadProcess of the session form; the session key is created and
\* marked ready in this step
StartUploadProcess(connected) ==
  /\ up.form = "session"
  /\ up.pc = "idle"
  /\ up.currentStep = "select"
  /\ up.files # <<>>
  /\ connected
  /\ up' = [up EXCEPT !.currentStep = "session"]
  /\ UNCHANGED allButUploader

\* handleEncryptAndUpload up to the first encrypt; ready: the wallet is
\* connected (inline form) or the session key is ready (session form)
HandleEncryptAndUpload(ready) ==
  /\ up.pc = "idle"
  /\ up.currentStep = IF up.form = "inline" THEN "select" ELSE "session"
  /\ IF (up.form = "inline" /\ up.files = <<>>) \/ ~ready
     THEN up' = [up EXCEPT !.pc = "refused"]
     ELSE up' = [up EXCEPT !.pc = "encrypting", !.processing = TRUE, !.i = 1,
                   !.currentStep = IF up.form = "inline" THEN "encrypting"
                                   ELSE @]
  /\ UNCHANGED allButUploader

\* encrypt of file i returned (ok) or returned null; after the last file
\* the encrypted files are handed to store
UploaderEncrypted(ok) ==
  /\ up.pc = "encrypting"
  /\ LET pushed == IF ok
                   THEN Append(up.encryptedFiles,
                               ReadResult(FieldRead(up.form), up.files[up.i]))
                   ELSE up.encryptedFiles IN
     IF ~ok /\ FailedFileThrows(up.form)
     THEN up' = [up EXCEPT !.pc = "done", !.currentStep = "select",
                           !.processing = FALSE]
     ELSE IF up.i < Len(up.files)
     THEN up' = [up EXCEPT !.i = @ + 1, !.encryptedFiles = pushed]
     ELSE up' = [up EXCEPT !.pc = "storing", !.encryptedFiles = pushed,
                           !.currentStep = "uploading", !.stored = pushed,
                           !.storeCalled = TRUE]
  /\ UNCHANGED allButUploader

\* storeToWalrus returned a result (ok) or null: the step changes only for
\* a result; finally { setProcessing(false) }
UploaderStored(ok) ==
  /\ up.pc = "storing"
  /\ up' = [up EXCEPT !.pc = "done", !.processing = FALSE,
                      !.currentStep = IF ok THEN "complete" ELSE @]
  /\ UNCHANGED allButUploader

\* the button of the complete step starts over
ResetProcess ==
  /\ up.currentStep = "complete"
  /\ up' = IdleUploader(up.form)
  /\ UNCHANGED allButUploader

Init ==
  /\ currentAccount = FALSE
  /\ pc = [c \in Calls |-> "idle"]
  /\ files = [c \in Calls |-> <<>>]
  /\ storage = [c \in Calls |-> NoStorage]
  /\ cert = [c \in Calls |-> NoCert]
  /\ blobObjectId = [c \in Calls |-> "none"]
  /\ hist = [c \in Calls |-> <<>>]
  /\ res = [c \in Calls |-> "none"]
  /\ ret = [c \in Calls |-> NoRet]
  /\ blobs = <<>>
  /\ loading = FALSE
  /\ error = "none"
  /\ now = 1
  /\ skeys = <<>>
  /\ sessionKeys = [t \in 1..MaxTime |-> 0]
  /\ cr = IdleCreate
  /\ dec = IdleDecrypt
  /\ fk = NoFetch
  /\ enc = IdleEncrypt
  /\ vk = IdleVerify
  /\ tx = NoTx
  /\ adm = IdleAdmin
  /\ app = [network |-> "testnet", wallet |-> FALSE]
  /\ hook = [sealService |-> 0, isInitialized |-> FALSE,
             initializationPromise |-> 0, loading |-> FALSE,
             error |-> "none"]
  /\ runs = <<NewRun("testnet")>>
  /\ ops = [o \in OpSlots |-> IdleOp]
  /\ up = IdleUploader("inline")

Next ==
  \/ SetAccount /\ UNCHANGED <<sealVars, cryptVars, uiVars, up>>
  \/ \E c \in Calls, fl \in FileLists : StoreCall(c, fl) /\ UNCHANGED <<sealVars, cryptVars, uiVars, up>>
  \/ \E c \in Calls, o \in {"ok", "noEvent", "rejected"} :
       PurchaseDone(c, o) /\ UNCHANGED <<sealVars, cryptVars, uiVars, up>>
  \/ \E c \in Calls, o \in {"ok", "notOk", "networkError"}, n \in 0..MaxSigs :
       UploadDone(c, o, n) /\ UNCHANGED <<sealVars, cryptVars, uiVars, up>>
  \/ \E c \in Calls, o \in {"ok", "noObject", "rejected"} :
       RegisterDone(c, o) /\ UNCHANGED <<sealVars, cryptVars, uiVars, up>>
  \/ \E c \in Calls, o \in {"ok", "rejected"} :
       CertifyDone(c, o) /\ UNCHANGED <<sealVars, cryptVars, uiVars, up>>

Spec == Init /\ [][Next]_vars

SealNext ==
  \/ Tick /\ UNCHANGED <<walrusVars, cryptVars, uiVars, up>>
  \/ \E pkg \in PackageIds, ttl \in TTLs, signer \in BOOLEAN :
       /\ Len(skeys) < MaxDecryptKeys
       /\ CreateSessionKeyStart(pkg, ttl, signer)
       /\ UNCHANGED <<walrusVars, cryptVars, uiVars, up>>
  \/ \E approved \in BOOLEAN :
       CreateSessionKeySigned(approved) /\ UNCHANGED <<walrusVars, cryptVars, uiVars, up>>
  \/ \E k \in 1..MaxKeys, sigKind \in {"wallet", "other"} :
       SignSessionKey(k, sigKind) /\ UNCHANGED <<walrusVars, cryptVars, uiVars, up>>
  \/ \E id \in 1..MaxTime : RemoveSessionKey(id) /\ UNCHANGED <<walrusVars, cryptVars, uiVars, up>>
  \/ \E entry \in Entries, k \in 0..Len(skeys), obj \in EncObjects,
        connected \in BOOLEAN, hasTx \in BOOLEAN, signer \in BOOLEAN :
       DecryptStart(entry, k, obj, connected, hasTx, signer)
         /\ UNCHANGED <<walrusVars, cryptVars, uiVars, up>>
  \/ \E approved \in BOOLEAN :
       DecryptWalletSigned(approved) /\ UNCHANGED <<walrusVars, cryptVars, uiVars, up>>
  \/ \E responders \in SUBSET Servers, approve \in BOOLEAN :
       SdkDecryptDone(responders, approve) /\ UNCHANGED <<walrusVars, cryptVars, uiVars, up>>
  \/ DecryptReturn /\ UNCHANGED <<walrusVars, cryptVars, uiVars, up>>

SealSpec == Init /\ [][SealNext]_vars

FetchNext ==
  \/ Tick /\ UNCHANGED <<walrusVars, cryptVars, uiVars, up>>
  \/ \E pkg \in PackageIds, ttl \in TTLs, signer \in BOOLEAN :
       CreateSessionKeyStart(pkg, ttl, signer) /\ UNCHANGED <<walrusVars, cryptVars, uiVars, up>>
  \/ \E approved \in BOOLEAN :
       CreateSessionKeySigned(approved) /\ UNCHANGED <<walrusVars, cryptVars, uiVars, up>>
  \/ \E k \in 1..MaxKeys, sigKind \in {"wallet", "other"} :
       SignSessionKey(k, sigKind) /\ UNCHANGED <<walrusVars, cryptVars, uiVars, up>>
  \/ \E k \in 1..MaxKeys, threshold \in 0..Cardinality(Servers),
        responders \in SUBSET Servers, approve \in BOOLEAN :
       FetchKeys(k, threshold, responders, approve) /\ UNCHANGED <<walrusVars, cryptVars, uiVars, up>>

FetchSpec == Init /\ [][FetchNext]_vars
\* policies as the UI paths and direct callers build them
Policies ==
  {CreatePolicy(n, h) : n \in Networks, h \in RandomHexIds}
    \cup {PanelPolicy(n, h, t) : n \in Networks, h \in {<<"a", "b">>},
                                  t \in 1..2}
    \cup {UploaderPolicy(n, h) : n \in Networks, h \in RandomHexIds}
    \cup DirectPolicies

CryptNext ==
  \/ Tick /\ UNCHANGED <<walrusVars, cryptVars, uiVars, up>>
  \/ \E data \in Datas, policy \in Policies :
       EncryptStart(data, policy) /\ UNCHANGED <<walrusVars, uiVars, up>>
  \/ \E accepted \in BOOLEAN, signer \in BOOLEAN, ttl \in TTLs :
       EncryptSdkDone(accepted, signer, ttl) /\ UNCHANGED <<walrusVars, uiVars, up>>
  \/ \E approved \in BOOLEAN :
       CreateSessionKeySigned(approved) /\ UNCHANGED <<walrusVars, cryptVars, uiVars, up>>
  \/ EncryptReturn /\ UNCHANGED <<walrusVars, uiVars, up>>
  \/ \E k \in 1..MaxKeys :
       SignSessionKey(k, "other") /\ UNCHANGED <<walrusVars, cryptVars, uiVars, up>>
  \/ \E packageId \in PackageIds, id \in TxIds, buildOk \in BOOLEAN :
       /\ enc.outcome = "result"
       /\ dec.pc = "idle"
       /\ BuildSealApproveTransaction(packageId, id, buildOk)
       /\ UNCHANGED <<walrusVars, uiVars, up>>
  \/ \E k \in 1..Len(skeys), signer \in BOOLEAN :
       /\ enc.outcome = "result"
       /\ DecryptStart("service", k, enc.object, TRUE, tx.outcome = "built",
                       signer)
       /\ UNCHANGED <<walrusVars, cryptVars, uiVars, up>>
  \/ \E approved \in BOOLEAN :
       DecryptWalletSigned(approved) /\ UNCHANGED <<walrusVars, cryptVars, uiVars, up>>
  \/ \E responders \in SUBSET Servers, approve \in BOOLEAN :
       SdkDecryptDone(responders, approve)
         /\ UNCHANGED <<walrusVars, cryptVars, uiVars, up>>
  \/ DecryptReturn /\ UNCHANGED <<walrusVars, cryptVars, uiVars, up>>

CryptSpec == Init /\ [][CryptNext]_vars

\* lists of at most MaxVerifyIds server ids
ServerIdLists ==
  UNION {[1..n -> ServerIds] : n \in 0..MaxVerifyIds}

VerifyNext ==
  \/ \E ids \in ServerIdLists : VerifyStart(ids) /\ UNCHANGED <<walrusVars, uiVars, up>>
  \/ \E i \in 1..MaxVerifyIds, answer \in ServiceAnswers :
       VerifyFetchDone(i, answer) /\ UNCHANGED <<walrusVars, uiVars, up>>
  \/ VerifyReturn /\ UNCHANGED <<walrusVars, uiVars, up>>
  \/ VerifyReset /\ UNCHANGED <<walrusVars, uiVars, up>>

VerifySpec == Init /\ [][VerifyNext]_vars

AdminNext ==
  \/ \E op \in AdminOps, service \in Services, blobId \in BlobIds,
        exists \in BOOLEAN :
       AdminCall(op, service, blobId, exists) /\ UNCHANGED <<walrusVars, uiVars, up>>
  \/ \E rpcOk \in BOOLEAN, found \in BOOLEAN :
       AdminLookupDone(rpcOk, found) /\ UNCHANGED <<walrusVars, uiVars, up>>
  \/ \E ok \in BOOLEAN : AdminSignDone(ok) /\ UNCHANGED <<walrusVars, uiVars, up>>
  \/ \E reached \in BOOLEAN : AdminHeadDone(reached) /\ UNCHANGED <<walrusVars, uiVars, up>>
  \/ AdminReset /\ UNCHANGED <<walrusVars, uiVars, up>>

AdminSpec == Init /\ [][AdminNext]_vars

\* initialisation, network changes and operations invoked at any moment
HookNext ==
  \/ \E network \in Networks :
       SetNetwork(network) /\ UNCHANGED <<walrusVars, cryptVars, cr, dec, fk, up>>
  \/ \E connected \in BOOLEAN :
       SetWallet(connected) /\ UNCHANGED <<walrusVars, cryptVars, cr, dec, fk, up>>
  \/ \E r \in 1..MaxRuns, ok \in BOOLEAN :
       InitImported(r, ok) /\ UNCHANGED <<walrusVars, cryptVars, cr, dec, fk, up>>
  \/ \E r \in 1..MaxRuns, ok \in BOOLEAN :
       InitSettled(r, ok) /\ UNCHANGED <<walrusVars, cryptVars, cr, dec, fk, up>>
  \/ \E o \in OpSlots, kind \in OpKinds, k \in 0..MaxKeys :
       OpStart(o, kind, k) /\ UNCHANGED <<walrusVars, cryptVars, cr, dec, fk, up>>
  \/ \E o \in OpSlots :
       OpWaited(o) /\ UNCHANGED <<walrusVars, cryptVars, cr, dec, fk, up>>
  \/ \E o \in OpSlots, ok \in BOOLEAN, ttl \in TTLs :
       /\ Len(skeys) < MaxDecryptKeys
       /\ OpKeyCreated(o, ok, ttl)
       /\ UNCHANGED <<walrusVars, cryptVars, cr, dec, fk, up>>
  \/ \E o \in OpSlots, valid \in BOOLEAN :
       OpKeySigned(o, valid)
         /\ UNCHANGED <<walrusVars, cryptVars, cr, dec, fk, up>>
  \/ \E o \in OpSlots :
       OpReturn(o) /\ UNCHANGED <<walrusVars, cryptVars, cr, dec, fk, up>>

HookSpec == Init /\ [][HookNext]_vars

\* no operation in flight on an initialised hook
Quiet == hook.isInitialized /\ \A o \in OpSlots : ops[o].pc = "idle"

\* the session key store: operations invoked on an initialised hook
StoreNext ==
  \/ Quiet /\ Tick /\ UNCHANGED <<walrusVars, cryptVars, uiVars, up>>
  \/ \E r \in 1..MaxRuns :
       InitImported(r, TRUE) /\ UNCHANGED <<walrusVars, cryptVars, cr, dec, fk, up>>
  \/ \E r \in 1..MaxRuns :
       InitSettled(r, TRUE) /\ UNCHANGED <<walrusVars, cryptVars, cr, dec, fk, up>>
  \/ \E o \in OpSlots, kind \in OpKinds, k \in 0..MaxKeys :
       /\ hook.isInitialized
       /\ OpStart(o, kind, k)
       /\ UNCHANGED <<walrusVars, cryptVars, cr, dec, fk, up>>
  \/ \E o \in OpSlots, ok \in BOOLEAN, ttl \in TTLs :
       OpKeyCreated(o, ok, ttl)
         /\ UNCHANGED <<walrusVars, cryptVars, cr, dec, fk, up>>
  \/ \E o \in OpSlots, valid \in BOOLEAN :
       OpKeySigned(o, valid)
         /\ UNCHANGED <<walrusVars, cryptVars, cr, dec, fk, up>>
  \/ \E id \in 1..MaxTime :
       /\ Quiet
       /\ RemoveSessionKey(id)
       /\ UNCHANGED <<walrusVars, cryptVars, uiVars, up>>
  \/ \E o \in OpSlots :
       OpReturn(o) /\ UNCHANGED <<walrusVars, cryptVars, cr, dec, fk, up>>

StoreSpec == Init /\ [][StoreNext]_vars

UploaderNext ==
  \/ \E form \in UploaderForms, fl \in Selections : HandleFileSelect(form, fl)
  \/ \E connected \in BOOLEAN : StartUploadProcess(connected)
  \/ \E ready \in BOOLEAN : HandleEncryptAndUpload(ready)
  \/ \E ok \in BOOLEAN : UploaderEncrypted(ok)
  \/ \E ok \in BOOLEAN : UploaderStored(ok)
  \/ ResetProcess

UploaderSpec == Init /\ [][UploaderNext]_vars

\* ===================================================== claims: Walrus
\* network quorum of the availability certificate (spec 3, 4.1; the
\* scenarios of spec 8 use a 2-of-2 quorum)
NetworkQuorum == 2

AllRequests == <<"purchase", "upload", "register", "certify">>

Submitted(c, req) == \E i \in 1..Len(hist[c]) : hist[c][i] = req

IsPrefix(s, t) == Len(s) <= Len(t) /\ \A i \in 1..Len(s) : s[i] = t[i]

\* C1: blob::certify is submitted only after blob::register for the same
\* blob id has returned a BlobObject id; when register fails or creates no
\* object, certify is not submitted and the store call fails.
C1_CertifyOnlyAfterRegister ==
  \A c \in Calls :
    /\ Submitted(c, "certify") =>
         /\ blobObjectId[c] # "none"
         /\ \E i, j \in 1..Len(hist[c]) :
              i < j /\ hist[c][i] = "register" /\ hist[c][j] = "certify"
    /\ (Submitted(c, "register") /\ res[c] \in {"noObject", "rejected"}
          /\ blobObjectId[c] = "none") =>
         ~Submitted(c, "certify") /\ ret[c] = NullRet

C1_Witness ==
  \E c \in Calls : Submitted(c, "certify") /\ blobObjectId[c] = "object"

\* C2: a store call that returned a result submitted exactly purchase,
\* upload, register, certify, once each and in that order; at any time the
\* requests submitted by a call are a prefix of that sequence.
C2_FourPhasesInOrder ==
  \A c \in Calls :
    /\ IsPrefix(hist[c], AllRequests)
    /\ ret[c].kind = "result" => hist[c] = AllRequests

C2_Witness == \E c \in Calls : ret[c].kind = "result"

\* C8: when a phase of store fails (empty file list, no purchase event,
\* upload not OK, no object created, rejected chain call) the call is
\* aborted at the request that failed, useWalrus.store returned null and
\* only committed calls added a blob to the blob list.
C8_FailureAborts ==
  /\ \A c \in Calls :
       /\ res[c] \notin {"none", "ok"} =>
            /\ pc[c] = "Aborted"
            /\ ret[c] = NullRet
            /\ res[c] = "noEvent" => hist[c] = <<"purchase">>
            /\ res[c] \in {"notOk", "networkError"} =>
                 hist[c] = <<"purchase", "upload">>
            /\ res[c] = "noObject" =>
                 hist[c] = <<"purchase", "upload", "register">>
       /\ (pc[c] \notin {"idle", "Refused"} /\ files[c] = <<>>) =>
            pc[c] = "Aborted" /\ hist[c] = <<>> /\ ret[c] = NullRet
       /\ pc[c] = "Aborted" => ret[c] = NullRet
  /\ Len(blobs) = Cardinality({c \in Calls : pc[c] = "Committed"})

C8_Witness ==
  \E c \in Calls : pc[c] = "Aborted" /\ res[c] = "noEvent" /\ blobs = <<>>

\* C9: register and certify are submitted only when the availability
\* certificate of the upload carries at least NetworkQuorum signatures.
C9_QuorumBeforeRegister ==
  \A c \in Calls : Submitted(c, "register") => cert[c].sigs >= NetworkQuorum

\* C10: over all store attempts for the same blob id at most one storage
\* reservation is purchased.
C10_AtMostOnePurchasePerBlob ==
  \A c1, c2 \in Calls :
    (/\ storage[c1].objectId # "none"
     /\ storage[c2].objectId # "none"
     /\ BlobIdOf(files[c1][1]) = BlobIdOf(files[c2][1])) => c1 = c2

\* the blob::register and blob::certify requests among those of a call
BlobRequests(c) ==
  SelectSeq(hist[c], LAMBDA r : r \in {"register", "certify"})

DecryptReachedSdk == dec.pc = "done" /\ dec.outcome \in
                       {"plaintext", "error:Decryption failed"}

C5_ExpiredKeyNeverReachesServers ==
  (dec.pc # "idle" /\ dec.key # 0
     /\ dec.startedAt >= skeys[dec.key].expiresAt) =>
    /\ dec.pc = "done"
    /\ dec.outcome \in {"alert:expired", "alert:wallet", "error:noTx"}

\* C6: a decrypt started with a session key of another package than the
\* object's, compared in canonical form, sends no decrypt request and ends
\* with the incompatible error (or with an error of an earlier check)
C6_OtherPackageNeverReachesServers ==
  (dec.pc # "idle" /\ dec.key # 0
     /\ Canon(skeys[dec.key].packageId) # Canon(dec.obj.packageId)) =>
    /\ dec.pc = "done"
    /\ dec.outcome \in {"alert:incompatible", "alert:wallet",
                        "alert:expired", "alert:unsigned", "error:noTx"}

\* C7: a session key under creation is unsigned and inactive, and a session
\* key is active only if a wallet signature has been attached to it
C7_ActiveOnlyAfterWalletSignature ==
  \A k \in 1..Len(skeys) :
    /\ skeys[k].id = 0 => ~skeys[k].isActive /\ skeys[k].sig = "none"
    /\ skeys[k].isActive => skeys[k].walletSigned /\ skeys[k].id # 0

C7_Witness ==
  \E k \in 1..Len(skeys) :
    /\ skeys[k].isActive
    /\ skeys[k].walletSigned
    /\ skeys[k].sig = "wallet"
    /\ sessionKeys[skeys[k].id] = k

\* C17: the session key store holds no session key for which
\* now >= expiresAt (expired keys are discarded, as revoked ones are, and
\* cannot be selected for a decrypt).
C17_StoreHoldsNoExpiredKey ==
  \A id \in 1..MaxTime :
    sessionKeys[id] # 0 => now < skeys[sessionKeys[id]].expiresAt

ReachedSdkEncrypt == enc.pc \in {"sdk", "key"} \/ enc.object # NoObject

\* C14: a policy that reaches the SDK encrypt call, built by createPolicy
\* under the testnet or the mainnet configuration (directly, in the
\* encryption panel or in the uploader), has a threshold of at least 1 and
\* at most the number of its key servers.
C14_ThresholdWithinKeyServers ==
  (ReachedSdkEncrypt /\ enc.policy.path # "direct") =>
    /\ 1 <= enc.policy.threshold
    /\ enc.policy.threshold <= Cardinality(enc.policy.keyServers)

\* C15: the policy id that reaches the SDK encrypt call has the canonical
\* length (two hexadecimal digits a byte), only hexadecimal digits and no
\* 0x prefix, whichever UI path built the policy.
C15_CanonicalPolicyId ==
  (ReachedSdkEncrypt /\ enc.policy.path # "direct") =>
    /\ Len(enc.id) = 2 * IdBytes
    /\ IsHexString(enc.id)
    /\ ~StartsWith0x(enc.id)

\* the same id, written with or without the 0x prefix
SameIdUpToPrefix(a, b) ==
  a = b \/ a = <<"0", "x">> \o b \/ b = <<"0", "x">> \o a

\* C16: whether an id is given with or without the 0x prefix, the id bytes
\* of the seal_approve call equal the id bytes the object was encrypted
\* under, the call targets the normalized package, and the session key
\* returned by encrypt has the package id of the encryption result.
C16_OneCanonicalForm ==
  /\ (enc.outcome = "result" /\ tx.outcome = "built"
        /\ SameIdUpToPrefix(tx.id, enc.policy.id)) =>
       tx.idBytes = enc.object.id
  /\ (enc.outcome = "result" /\ tx.outcome = "built"
        /\ Canon(tx.packageId) = Canon(enc.policy.packageId)) =>
       tx.target = enc.object.packageId
  /\ (enc.outcome = "result" /\ enc.key <= Len(skeys)) =>
       /\ skeys[enc.key].packageId = enc.resultPackageId
       /\ enc.resultPackageId = enc.object.packageId

C16_Witness ==
  /\ enc.outcome = "result"
  /\ tx.outcome = "built"
  /\ enc.policy.id = <<"0", "x", "a", "b">>
  /\ tx.id = <<"a", "b">>
  /\ enc.policy.packageId = "A"
  /\ tx.packageId = "0xA"
  /\ tx.idBytes = <<171>>

\* C18: the seal_approve transaction that buildSealApproveTransaction
\* returns is neither signed nor submitted, and it is still neither after a
\* decrypt has forwarded it to the key servers; encrypt and decrypt submit
\* no chain call.
C18_SealApproveNeverExecuted ==
  /\ tx.outcome = "built" => ~tx.signed /\ ~tx.submitted
  /\ (dec.pc \in {"signing", "sdk"} \/ DecryptReachedSdk) =>
       /\ tx.outcome = "built"
       /\ ~tx.signed
       /\ ~tx.submitted
  /\ \A c \in Calls : hist[c] = <<>>

C18_Witness ==
  /\ dec.pc = "done"
  /\ dec.outcome = "plaintext"
  /\ tx.outcome = "built"
  /\ ~tx.submitted

\* ------------------------------------------- verifyKeyServers claims
\* C13: verifyKeyServers returns true exactly when every listed id is
\* configured, its service endpoint answered successfully and reported the
\* requested object id; it always returns a boolean, and true for the
\* empty list.
C13_VerifyIsConjunction ==
  vk.pc = "done" =>
    /\ vk.result \in BOOLEAN
    /\ vk.result =
         (\A i \in 1..Len(vk.ids) :
            /\ vk.ids[i] \in Servers
            /\ vk.answers[i].kind = "ok"
            /\ vk.answers[i].objectId = vk.ids[i])
    /\ vk.ids = <<>> => vk.result

C13_Witness ==
  /\ vk.pc = "done"
  /\ Len(vk.ids) = 2
  /\ vk.answers[1].kind = "ok"
  /\ vk.answers[1].objectId = vk.ids[1]
  /\ vk.answers[2].kind = "ok"
  /\ vk.answers[2].objectId # vk.ids[2]
  /\ ~vk.result

\* ------------------------------- status, extend, delete, systemInfo
\* C19: without a chain-signing capability extend, delete and systemInfo
\* fail with a descriptive error that names the operation as unsupported
\* (or the service as not initialized) and issue no chain call and no
\* network request.
C19_UnsupportedWithoutSigner ==
  (/\ adm.pc = "done"
   /\ adm.op \in {"extend", "delete", "systemInfo"}
   /\ adm.service # "full") =>
    /\ adm.outcome \in {"error:unsupported", "error:not initialized"}
    /\ adm.requests = <<>>

\* C20: status reports a blob as stored exactly when the aggregator holds
\* it (the HEAD request succeeds), whoever owns the blob object.
C20_StatusIsExistenceProbe ==
  (/\ adm.pc = "done"
   /\ adm.op = "status"
   /\ adm.service = "full"
   /\ adm.outcome \in Statuses) =>
    (adm.outcome = "stored" <=> adm.exists)

\* ------------------------------------------------- store: errors, sizes
\* the request during which an aborted store call failed
FailedRequest(c) == hist[c][Len(hist[c])]

\* C23: the error of a failed store call tells in which phase it failed:
\* two calls that failed in different phases report different errors.
C23_ErrorIdentifiesPhase ==
  \A c1, c2 \in Calls :
    (/\ pc[c1] = "Aborted" /\ hist[c1] # <<>>
     /\ pc[c2] = "Aborted" /\ hist[c2] # <<>>
     /\ StoreError(FailedRequest(c1), res[c1])
          = StoreError(FailedRequest(c2), res[c2])) =>
      FailedRequest(c1) = FailedRequest(c2)

\* the number of bytes committed under a blob id
CommittedSize(id) == SizeOf(CHOOSE d \in Payloads : BlobIdOf(d) = id)

\* C24: every file of a committed store call is committed under its blob
\* id, and every entry of the blob list records the number of bytes
\* committed under its id.
C24_AllFilesCommittedWithTheirSize ==
  /\ \A c \in Calls : pc[c] = "Committed" =>
        \A j \in 1..Len(files[c]) :
          \E c2 \in Calls : /\ pc[c2] = "Committed"
                             /\ cert[c2].blobId = BlobIdOf(files[c][j])
  /\ \A i \in 1..Len(blobs) : blobs[i].size = CommittedSize(blobs[i].id)

\* ---------------------------------------------- useSeal and AppContext
\* C21: a network change empties the session key store and leaves the
\* wallet connection state as it was.
C21_NetworkSwitchResetsKeys ==
  [][app'.network # app.network =>
       /\ \A id \in 1..MaxTime : sessionKeys'[id] = 0
       /\ app'.wallet = app.wallet]_vars

\* C25: no step replaces the session key stored under an id by a different
\* session key; an entry only ever goes away by removal.
C25_NoSessionKeyOverwritten ==
  [][\A id \in 1..MaxTime :
       sessionKeys[id] # 0 => sessionKeys'[id] \in {0, sessionKeys[id]}]_vars

\* C26: an operation that waited for the initialisation now installed in
\* the hook did not end with 'Seal service failed to initialize'.
C26_WaitingOperationProceeds ==
  \A o \in OpSlots :
    (/\ ops[o].pc = "done"
     /\ ops[o].initializationPromise # 0
     /\ runs[ops[o].initializationPromise].pc = "resolved"
     /\ hook.isInitialized
     /\ hook.sealService = ops[o].initializationPromise) =>
      ops[o].outcome # "error:Seal service failed to initialize"

C28_LoadingWhileInFlight ==
  (\E o \in OpSlots : ops[o].pc \in {"waiting", "service"}) => hook.loading

\* C30: when signSessionKey ends with true, the store holds the signed key
\* under the key's id and every other entry is as before; when it ends with
\* false the store is as before.
C30_SignedKeyIsStored ==
  [][\A o \in OpSlots :
       (/\ ops[o].pc = "service"
        /\ ops[o].kind = "signSessionKey"
        /\ ops'[o].pc = "done") =>
         LET k == ops[o].key
             id == skeys[k].id IN
         IF ops'[o].outcome = "true"
         THEN /\ sessionKeys'[id] = k
              /\ skeys'[k].isActive
              /\ \A other \in 1..MaxTime \ {id} :
                    sessionKeys'[other] = sessionKeys[other]
         ELSE sessionKeys' = sessionKeys]_vars

\* ----------------------------------------------- encrypted upload flow
\* C22: what is handed to store is exactly one ciphertext per selected
\* file, in order, so store is not called when a file failed to encrypt.
C22_OnlyCiphertextsStored ==
  up.storeCalled =>
    /\ Len(up.stored) = Len(up.files)
    /\ \A j \in 1..Len(up.stored) :
          up.stored[j] = [of |-> up.files[j], content |-> "ciphertext"]

\* C29: when the handler has ended, the step is 'complete' or 'select'.
C29_StepSettles ==
  up.pc = "done" => up.currentStep \in {"complete", "select"}

====
